---- MODULE Spec2Model ----
(***************************************************************************)
(* PrepForge backend: the feedback normalizer (FeedbackService), the       *)
(* progress aggregator (DatabaseService.saveAnswer / updateUserProgress)   *)
(* and the question generator (AIService.generateQuestions with the        *)
(* CacheService), modelled from the TypeScript sources.                    *)
(*                                                                         *)
(* The specifications share the module; each drives one subsystem and      *)
(* leaves the variables of the others at their initial value:              *)
(*   SpecFeedback   FeedbackService.generateFeedback                       *)
(*   SpecSeq        saveAnswer calls that do not overlap                   *)
(*   SpecConc       saveAnswer calls interleaved at their await points     *)
(*   SpecQuestions  AIService.generateQuestions and its cache              *)
(*   SpecQuestionRoutes  the generate-questions handlers                   *)
(*   SpecFeedbackRoutes  POST /generate-feedback                           *)
(*   SpecBookmarks  the bookmark routes and the interview lookups          *)
(*   SpecMemo       the memoized AIService.generateFeedback                *)
(*   SpecCache      CacheService on its own                                *)
(***************************************************************************)
EXTENDS Integers, Sequences, FiniteSets, TLC

VARIABLES
    fbPc,        \* position of the generateFeedback call
    fbUpstream,  \* what the generative backend did for the call in flight
    fbReturn,    \* the value the call resolved with
    answers,     \* the user's rows of table answers, in insertion order
    userProgress,\* the user's row of table user_progress
    progressRows,\* how many rows table user_progress holds for the user
    calls,       \* the saveAnswer calls in flight, in the order they were made
    settled,     \* saveAnswer calls that returned, that rejected in
                 \* updateUserProgress, and whose insert of the answer rejected
    now,         \* the wall clock
    zone,        \* the time zone of the server process
    cache,       \* CacheService.cache: key -> entry
    cacheNow,    \* Date.now() as the cache sees it, in units of 30 minutes
    difficulty,  \* the difficulty the client asks for
    gqPc,        \* position of the generateQuestions call
    gqReq,       \* parameters of the generateQuestions call
    gqReturn,    \* what the call resolved with, and from where
    gqCalls,     \* generateQuestions calls made so far
    rtPc,        \* the await a route handler is suspended on
    rtReq,       \* the request the handler is serving
    rtRes,       \* the response the client has received for it
    rtCount,     \* requests received so far
    interviews,  \* table interviews: the owner of each row, by id
    savedQuestionSets, \* table saved_question_sets: id -> row
    bmCalls,     \* the BookmarkService calls in flight
    bmRes,       \* the last response of a bookmark or lookup route
    bmCount,     \* bookmark and lookup requests received so far
    mfPc,        \* position of the call of the memoized generateFeedback
    mfReq,       \* the question and the answer of that call
    mfReturn,    \* the feedback the call resolved with, and from where
    mfCalls,     \* calls of the memoized generateFeedback made so far
    csLast,      \* per key, the last CacheService.set and whether the key
                 \* was deleted or the cache cleared since
    csGot,       \* the last CacheService.get and what it returned
    csCount      \* CacheService calls made so far

fbVars == <<fbPc, fbUpstream, fbReturn>>
progVars == <<answers, userProgress, progressRows, calls, settled, now, zone>>
gqVars == <<cache, cacheNow, difficulty, gqPc, gqReq, gqReturn, gqCalls>>
rtVars == <<rtPc, rtReq, rtRes, rtCount, interviews>>
bmVars == <<savedQuestionSets, bmCalls, bmRes, bmCount>>
mfVars == <<mfPc, mfReq, mfReturn, mfCalls>>
csVars == <<csLast, csGot, csCount>>
vars == <<fbVars, progVars, gqVars, rtVars, bmVars, mfVars, csVars>>

RECURSIVE SeqsUpTo(_, _)
SeqsUpTo(S, n) ==
    IF n = 0 THEN {<<>>}
    ELSE LET shorter == SeqsUpTo(S, n - 1)
         IN  shorter \cup {Append(s, x) : s \in {t \in shorter : Len(t) = n - 1}, x \in S}

(***************************************************************************)
(* Upstream texts and JSON                                                 *)
(***************************************************************************)

\* The text of a response is a sequence of tokens: the two code-fence
\* markers, white space, text that is not JSON, an object literal holding a
\* bare NaN (not JSON either), the literal of the response's object, the
\* literal of the response's array, and the literal null.
FenceJson == "<fence>json"   \* three backticks followed by json
Fence == "<fence>"           \* three backticks
WS == " "

\* text.replace(/<fence>json/g, "").replace(/<fence>/g, "")
StripFences(text) ==
    LET noJson == SelectSeq(text, LAMBDA t : t # FenceJson)
    IN  SelectSeq(noJson, LAMBDA t : t # Fence)

RECURSIVE TrimLeft(_)
TrimLeft(text) ==
    IF text # <<>> /\ Head(text) = WS THEN TrimLeft(Tail(text)) ELSE text

RECURSIVE TrimRight(_)
TrimRight(text) ==
    IF text # <<>> /\ text[Len(text)] = WS
    THEN TrimRight(SubSeq(text, 1, Len(text) - 1))
    ELSE text

\* String.prototype.trim
Trim(text) == TrimLeft(TrimRight(text))

\* JSON.parse: one JSON value, white space allowed around it; anything else
\* is a SyntaxError. The result is the kind of the value.
JsonParse(text) ==
    LET t == Trim(text)
    IN  IF Len(t) = 1 /\ t[1] = "{obj}" THEN "object"
        ELSE IF Len(t) = 1 /\ t[1] = "[arr]" THEN "array"
        ELSE IF Len(t) = 1 /\ t[1] = "null" THEN "null"
        ELSE "SyntaxError"

(***************************************************************************)
(* Feedback normalizer                                                     *)
(***************************************************************************)

\* Longest upstream text of generateFeedback, in tokens.
MaxTextLen == 3

FeedbackTokens == {FenceJson, Fence, WS, "junk", "{NaN}", "{obj}", "null"}

ScoreFields == {"relevanceScore", "clarityScore", "depthScore", "starMethodScore"}

\* A JavaScript value of a score property: a number, or undefined when the
\* object has no such property.
Num(n) == [t |-> "number", v |-> n]
Undefined == [t |-> "undefined", v |-> 0]

\* Values a score property of the upstream JSON object can take.
FieldVals == {Undefined, Num(-1), Num(5), Num(11)}

\* The JSON objects the backend can put in its text.
UpstreamObjects == [ScoreFields -> FieldVals]

\* The object with no property, also standing for "no object" where the kind
\* of a value says it is not an object.
EmptyObject == [f \in ScoreFields |-> Undefined]

\* What the backend does: generateContent rejects, response.text() throws,
\* or a text comes back.
UpstreamBehaviours ==
    {[kind |-> "reject", text |-> <<>>, obj |-> EmptyObject],
     [kind |-> "textThrows", text |-> <<>>, obj |-> EmptyObject]}
    \cup [kind : {"text"}, text : SeqsUpTo(FeedbackTokens, MaxTextLen), obj : UpstreamObjects]

\* The record of the catch block.
FallbackFeedback == [f \in ScoreFields |-> Num(0)]

\* A rejection that reaches the caller instead of being caught.
CatchFeedback_rethrow(error) ==
    [pc |-> "thrown", how |-> "error", kind |-> error, value |-> EmptyObject]

\* catch (error) { ... return { relevanceScore: 0, ... } }
CatchFeedback(error) ==
    [pc |-> "returned", how |-> "catch", kind |-> "object", value |-> FallbackFeedback]

\* The try block once generateContent has settled.
TryFeedback(up) ==
    IF up.kind = "reject" THEN CatchFeedback("upstream")
    ELSE IF up.kind = "textThrows" THEN CatchFeedback("text")
    ELSE LET jsonString == Trim(StripFences(up.text))
             parsed == JsonParse(jsonString)
         IN  IF parsed = "SyntaxError" THEN CatchFeedback("SyntaxError")
             ELSE [pc |-> "returned", how |-> "parsed", kind |-> parsed,
                   value |-> IF parsed = "object" THEN up.obj ELSE EmptyObject]

NoUpstream == [kind |-> "none", text |-> <<>>, obj |-> EmptyObject]
NoReturn == [how |-> "none", kind |-> "none", value |-> EmptyObject]

FbIdle ==
    /\ fbPc = "idle"
    /\ fbUpstream = NoUpstream
    /\ fbReturn = NoReturn

\* generateFeedback up to its first await.
FbInvoke ==
    /\ fbPc = "idle"
    /\ fbPc' = "awaiting"
    /\ fbUpstream' = NoUpstream
    /\ fbReturn' = NoReturn

\* generateFeedback is called and suspends on model.generateContent.
FbCall ==
    /\ FbInvoke
    /\ UNCHANGED <<progVars, gqVars, rtVars, bmVars, mfVars, csVars>>

\* generateFeedback from the settled await to its return, for a backend
\* that behaves in one of the given ways.
FbSettleFrom(behaviours) ==
    /\ fbPc = "awaiting"
    /\ \E up \in behaviours :
          LET r == TryFeedback(up)
          IN  /\ fbUpstream' = up
              /\ fbPc' = r.pc
              /\ fbReturn' = [how |-> r.how, kind |-> r.kind, value |-> r.value]

\* The backend settles and the rest of generateFeedback runs to its return.
FbSettle ==
    /\ FbSettleFrom(UpstreamBehaviours)
    /\ UNCHANGED <<progVars, gqVars, rtVars, bmVars, mfVars, csVars>>

\* The caller has taken the result of the call.
FbReset ==
    /\ fbPc' = "idle"
    /\ fbUpstream' = NoUpstream
    /\ fbReturn' = NoReturn

\* The caller is done with the result; the service takes the next call.
FbNextCall ==
    /\ fbPc \in {"returned", "thrown"}
    /\ FbReset
    /\ UNCHANGED <<progVars, gqVars, rtVars, bmVars, mfVars, csVars>>

(***************************************************************************)
(* Progress aggregator                                                     *)
(***************************************************************************)

\* saveAnswer calls made in one behaviour.
MaxCalls == 3
\* saveAnswer calls in flight at the same time.
MaxInFlight == 2
\* Last calendar day the clock reaches, counted from day 0, when the calls
\* do not overlap.
MaxDay == 3
\* Last calendar day the clock reaches when they do.
MaxConcDay == 1

\* Exact fractions for the real-valued columns; d = 0 is SQL NULL.
RECURSIVE GCD(_, _)
GCD(a, b) == IF b = 0 THEN a ELSE GCD(b, a % b)

Abs(x) == IF x < 0 THEN -x ELSE x

Rat(n, d) ==
    LET g == GCD(Abs(n), d)
    IN  IF g = 0 THEN [n |-> 0, d |-> 1] ELSE [n |-> n \div g, d |-> d \div g]

RatNull == [n |-> 0, d |-> 0]
RatInt(i) == [n |-> i, d |-> 1]
RatAdd(x, y) == Rat(x.n * y.d + y.n * x.d, x.d * y.d)
RatMul(x, y) == Rat(x.n * y.n, x.d * y.d)
RatDivInt(x, k) == Rat(x.n, x.d * k)
RatLeq(x, y) == x.n * y.d <= y.n * x.d

\* x || 0
OrZero(x) == IF x.d = 0 \/ x.n = 0 THEN RatInt(0) ELSE x

\* Sub-scores of the feedback the route passes on: relevance, clarity,
\* depth, STAR method.
FeedbackScores == {<<8, 6, 7, 9>>, <<10, 10, 10, 10>>}

\* Instants: a calendar day of the server's zone and a time of that day.
TimesOfDay == {"early", "late"}
LastDay == IF MaxDay > MaxConcDay THEN MaxDay ELSE MaxConcDay
Instants == [day : 0..LastDay, tod : TimesOfDay]
NoDate == [set |-> FALSE, day |-> 0, tod |-> "early"]
DateOf(t) == [set |-> TRUE, day |-> t.day, tod |-> t.tod]

\* The zone of the process: no daylight saving, or one transition in the
\* modelled days -- calendar day `day' lasts 25 hours (clocks set back) or
\* 23 hours (clocks set forward).
Zones ==
    {[kind |-> "fixed", day |-> 0],
     [kind |-> "back", day |-> 1],
     [kind |-> "forward", day |-> 1]}

HoursOfDay(z, d) ==
    IF z.kind = "back" /\ z.day = d THEN 25
    ELSE IF z.kind = "forward" /\ z.day = d THEN 23
    ELSE 24

\* new Date(y, m, d).getTime(): local midnight of day d, in hours since
\* local midnight of day 0.
RECURSIVE LocalMidnight(_, _)
LocalMidnight(z, d) ==
    IF d = 0 THEN 0 ELSE LocalMidnight(z, d - 1) + HoursOfDay(z, d - 1)

\* Math.ceil(a / b) for b > 0
Ceil(a, b) == -((-a) \div b)

\* Math.ceil(diffTime / (1000 * 60 * 60 * 24)) with the times in hours
DiffDays(z, today, lastPractice) ==
    Ceil(LocalMidnight(z, today.day) - LocalMidnight(z, lastPractice.day), 24)

NoProgress ==
    [exists |-> FALSE, totalQuestionsAnswered |-> 0, averageScore |-> RatInt(0),
     currentStreak |-> 0, longestStreak |-> 0, lastPracticeDate |-> NoDate]

\* The sum of the three scores, not divided.
SampleMean_sum(scores) ==
    RatAdd(RatAdd(OrZero(scores.relevanceScore), OrZero(scores.clarityScore)),
           OrZero(scores.depthScore))

\* (relevance + clarity + depth) / 3 of updateUserProgress
SampleMean(scores) ==
    RatDivInt(RatAdd(RatAdd(OrZero(scores.relevanceScore), OrZero(scores.clarityScore)),
                     OrZero(scores.depthScore)), 3)

\* (relevance + clarity + depth + starMethod) / 4 of the route
OverallScore(fb) == Rat(fb[1] + fb[2] + fb[3] + fb[4], 4)

\* The streak that keeps counting across a gap of several days.
NewCurrentStreak_noReset(z, current, today) ==
    IF current.lastPracticeDate.set
    THEN LET diffDays == DiffDays(z, today, current.lastPracticeDate)
         IN  IF diffDays >= 1 THEN current.currentStreak + 1
             ELSE current.currentStreak
    ELSE 1

\* The streak that counts every answer, also a second one on the same day.
NewCurrentStreak_perAnswer(z, current, today) ==
    IF current.lastPracticeDate.set
    THEN LET diffDays == DiffDays(z, today, current.lastPracticeDate)
         IN  IF diffDays <= 1 THEN current.currentStreak + 1
             ELSE 1
    ELSE 1

\* The streak of the update branch.
NewCurrentStreak(z, current, today) ==
    IF current.lastPracticeDate.set
    THEN LET diffDays == DiffDays(z, today, current.lastPracticeDate)
         IN  IF diffDays = 1 THEN current.currentStreak + 1
             ELSE IF diffDays > 1 THEN 1
             ELSE current.currentStreak
    ELSE 1

\* The longest streak left as it was read.
NewLongestStreak_stale(current, newCurrentStreak) == current.longestStreak

\* if (newCurrentStreak > newLongestStreak) newLongestStreak = newCurrentStreak
NewLongestStreak(current, newCurrentStreak) ==
    IF newCurrentStreak > current.longestStreak
    THEN newCurrentStreak
    ELSE current.longestStreak

\* The average that weighs the stored average like one sample.
NewAverageScore_unweighted(current, scores) ==
    RatDivInt(RatAdd(OrZero(current.averageScore), SampleMean(scores)), 2)

\* The average that is the newest sample alone.
NewAverageScore_sampleOnly(current, scores) == SampleMean(scores)

\* ((averageScore || 0) * (totalQuestionsAnswered || 0) + sample) / newTotalAnswers
NewAverageScore(current, scores) ==
    RatDivInt(RatAdd(RatMul(OrZero(current.averageScore),
                            RatInt(current.totalQuestionsAnswered)),
                     SampleMean(scores)),
              current.totalQuestionsAnswered + 1)

\* The row written by the update branch, computed from the row read.
UpdatedProgress(z, current, scores, today) ==
    LET newCurrentStreak == NewCurrentStreak(z, current, today)
    IN  [exists |-> TRUE,
         totalQuestionsAnswered |-> current.totalQuestionsAnswered + 1,
         averageScore |-> NewAverageScore(current, scores),
         currentStreak |-> newCurrentStreak,
         longestStreak |-> NewLongestStreak(current, newCurrentStreak),
         lastPracticeDate |-> DateOf(today)]

\* The row written by the insert branch.
InsertedProgress(scores, today) ==
    [exists |-> TRUE,
     totalQuestionsAnswered |-> 1,
     averageScore |-> SampleMean(scores),
     currentStreak |-> 1,
     longestStreak |-> 1,
     lastPracticeDate |-> DateOf(today)]

StartOfTime == [day |-> 0, tod |-> "early"]

\* The calls in flight once call i has settled.
Without(cs, i) == SubSeq(cs, 1, i - 1) \o SubSeq(cs, i + 1, Len(cs))

Started == Len(calls) + settled.returned + settled.rejected + settled.notInserted

NoDst == [kind |-> "fixed", day |-> 0]

\* The answer and the row a first saveAnswer leaves behind.
FirstAnswer ==
    [relevanceScore |-> RatInt(8), clarityScore |-> RatInt(6),
     depthScore |-> RatInt(7), overallScore |-> Rat(30, 4)]

\* No call made yet, no row stored.
ProgIdle ==
    /\ answers = <<>>
    /\ userProgress = NoProgress
    /\ progressRows = 0
    /\ calls = <<>>
    /\ settled = [returned |-> 0, rejected |-> 0, notInserted |-> 0]
    /\ now = StartOfTime
    /\ zone = NoDst

\* The call of updateUserProgress made for an answer, whether or not the
\* insert of the answer went through.
ProgressCall_unconditional(inserted, savedAnswer) ==
    <<[pc |-> "inserted",
       scores |-> [relevanceScore |-> savedAnswer.relevanceScore,
                   clarityScore |-> savedAnswer.clarityScore,
                   depthScore |-> savedAnswer.depthScore],
       current |-> NoProgress,
       today |-> StartOfTime]>>

\* saveAnswer after its await of the insert: updateUserProgress is called
\* with the scores of the row returned; a rejected insert ends the call.
ProgressCall(inserted, savedAnswer) ==
    IF inserted
    THEN <<[pc |-> "inserted",
            scores |-> [relevanceScore |-> savedAnswer.relevanceScore,
                        clarityScore |-> savedAnswer.clarityScore,
                        depthScore |-> savedAnswer.depthScore],
            current |-> NoProgress,
            today |-> StartOfTime]>>
    ELSE <<>>

\* The row of the scores a handler passes to saveAnswer.
RowOf(fb) ==
    [relevanceScore |-> RatInt(fb[1]), clarityScore |-> RatInt(fb[2]),
     depthScore |-> RatInt(fb[3]), overallScore |-> OverallScore(fb)]

\* POST /generate-feedback from the overall score on, up to the first await
\* of saveAnswer: the Answer row is inserted.
InsertAnswer(fb) ==
    /\ Started < MaxCalls
    /\ LET savedAnswer == RowOf(fb)
       IN  /\ answers' = Append(answers, savedAnswer)
           /\ calls' = calls \o ProgressCall(TRUE, savedAnswer)
    /\ UNCHANGED <<userProgress, progressRows, settled, now, zone, fbVars, gqVars, rtVars, bmVars, mfVars, csVars>>

\* saveAnswer called while no other call is in flight, and the insert of
\* the answer rejects: no row is stored and saveAnswer rejects.
SaveAnswerInsertFails ==
    /\ calls = <<>>
    /\ Started < MaxCalls
    /\ \E fb \in FeedbackScores :
          calls' = calls \o ProgressCall(FALSE, RowOf(fb))
    /\ settled' = [settled EXCEPT !.notInserted = @ + 1]
    /\ UNCHANGED <<answers, userProgress, progressRows, now, zone, fbVars, gqVars, rtVars, bmVars, mfVars, csVars>>

\* saveAnswer called while no other call is in flight.
SaveAnswerAlone ==
    /\ calls = <<>>
    /\ \E fb \in FeedbackScores : InsertAnswer(fb)

\* saveAnswer called while another call is in flight.
SaveAnswerOverlapping ==
    /\ calls # <<>>
    /\ Len(calls) < MaxInFlight
    /\ \E fb \in FeedbackScores : InsertAnswer(fb)

\* updateUserProgress: the select returns and today is taken.
SelectProgress(i) ==
    /\ calls[i].pc = "inserted"
    /\ calls' = [calls EXCEPT ![i].pc = "selected",
                              ![i].current = userProgress,
                              ![i].today = now]
    /\ UNCHANGED <<answers, userProgress, progressRows, settled, now, zone, fbVars, gqVars, rtVars, bmVars, mfVars, csVars>>

\* updateUserProgress: the update of the row that was read.
UpdateProgress(i) ==
    /\ calls[i].pc = "selected"
    /\ calls[i].current.exists
    /\ userProgress' = UpdatedProgress(zone, calls[i].current, calls[i].scores, calls[i].today)
    /\ calls' = Without(calls, i)
    /\ settled' = [settled EXCEPT !.returned = @ + 1]
    /\ UNCHANGED <<answers, progressRows, now, zone, fbVars, gqVars, rtVars, bmVars, mfVars, csVars>>

\* A table that takes a second row for the user.
InsertAccepted_noConstraint(rows) == TRUE

\* user_id is unique in user_progress: an insert is accepted when the
\* table holds no row for the user.
InsertAccepted(rows) == rows = 0

\* updateUserProgress: the insert when no row was read.
InsertProgress(i) ==
    /\ calls[i].pc = "selected"
    /\ ~calls[i].current.exists
    /\ InsertAccepted(progressRows)
    /\ userProgress' = InsertedProgress(calls[i].scores, calls[i].today)
    /\ progressRows' = progressRows + 1
    /\ calls' = Without(calls, i)
    /\ settled' = [settled EXCEPT !.returned = @ + 1]
    /\ UNCHANGED <<answers, now, zone, fbVars, gqVars, rtVars, bmVars, mfVars, csVars>>

\* The insert hits the unique constraint on user_id: the statement throws
\* and saveAnswer rejects.
InsertProgressConflict(i) ==
    /\ calls[i].pc = "selected"
    /\ ~calls[i].current.exists
    /\ ~InsertAccepted(progressRows)
    /\ calls' = Without(calls, i)
    /\ settled' = [settled EXCEPT !.rejected = @ + 1]
    /\ UNCHANGED <<answers, userProgress, progressRows, now, zone, fbVars, gqVars, rtVars, bmVars, mfVars, csVars>>

\* Time passes: to later the same day, or to a later day up to lastDay.
Tick(lastDay) ==
    /\ \E t \in Instants :
          /\ t.day <= lastDay
          /\ \/ t.day > now.day
             \/ t.day = now.day /\ now.tod = "early" /\ t.tod = "late"
          /\ now' = t
    /\ UNCHANGED <<answers, userProgress, progressRows, calls, settled, zone, fbVars, gqVars, rtVars, bmVars, mfVars, csVars>>

(***************************************************************************)
(* Question generator and cache                                            *)
(***************************************************************************)

\* Largest numberOfQuestions requested.
MaxCount == 1
\* Longest array in an upstream text.
MaxUpLen == 2
\* generateQuestions calls made in one behaviour.
MaxGenCalls == 2
\* The TTL of a cached question list (3600000 ms), in units of 30 minutes.
QuestionsTtl == 2

\* The clock of the cache moves once, by more than the TTL, so that what was
\* cached before has expired after.
LastTick == QuestionsTtl + 1

Difficulties == {"easy", "medium", "hard"}
QuestionTypes == {"behavioral", "technical", "situational"}
RequestTypes == QuestionTypes \cup {"all"}

TypeOfLetter(c) ==
    IF c = "b" THEN "behavioral" ELSE IF c = "t" THEN "technical" ELSE "situational"

\* The types of the twenty questions of each static list, in the order of
\* the source (ids "1" to "20").
easyQuestions ==
    <<"b", "b", "b", "b", "b", "t", "s", "b", "b", "b",
      "t", "s", "b", "b", "s", "t", "b", "b", "s", "b">>
mediumQuestions ==
    <<"b", "b", "s", "b", "b", "t", "s", "b", "t", "b",
      "t", "s", "t", "b", "s", "t", "b", "s", "t", "b">>
hardQuestions ==
    <<"t", "s", "t", "b", "s", "t", "b", "t", "s", "t",
      "s", "b", "t", "b", "s", "t", "b", "t", "b", "s">>

Bank(letters, d) ==
    [k \in 1..Len(letters) |-> [id |-> k, type |-> TypeOfLetter(letters[k]), difficulty |-> d]]

\* questionSets[difficulty] || mediumQuestions
QuestionSet(d) ==
    IF d = "easy" THEN Bank(easyQuestions, "easy")
    ELSE IF d = "hard" THEN Bank(hardQuestions, "hard")
    ELSE Bank(mediumQuestions, "medium")

\* Array.prototype.slice(0, n) for n >= 0
Slice(list, n) == SubSeq(list, 1, IF n < Len(list) THEN n ELSE Len(list))

\* parsedQuestions.filter((q) => q.type === questionType)
FilterByType(list, questionType) == SelectSeq(list, LAMBDA q : q.type = questionType)

\* if (questionType && questionType !== "all") list = list.filter(...)
FilterIfSpecific(list, questionType) ==
    IF questionType # "all" THEN FilterByType(list, questionType) ELSE list

getFallbackQuestions(d, numberOfQuestions, questionType) ==
    Slice(FilterIfSpecific(QuestionSet(d), questionType), numberOfQuestions)

\* Elements of an upstream array: a question of some type, or null.
UpstreamElements ==
    {[id |-> 0, type |-> ty, difficulty |-> "upstream"] :
        ty \in {"behavioral", "technical", "null"}}

\* Texts the backend answers a question prompt with.
QuestionTexts ==
    {<<>>, <<"junk">>, <<"{obj}">>, <<WS, "[arr]", WS>>, <<FenceJson, "[arr]", Fence>>}

\* What the backend does: generateContent rejects, or a text comes back;
\* the array matters only where the text parses as one.
UpstreamQuestionBehaviours ==
    {[kind |-> "reject", text |-> <<>>, arr |-> <<>>]}
    \cup [kind : {"text"},
          text : {t \in QuestionTexts : JsonParse(t) # "array"},
          arr : {<<>>}]
    \cup [kind : {"text"},
          text : {t \in QuestionTexts : JsonParse(t) = "array"},
          arr : SeqsUpTo(UpstreamElements, MaxUpLen)]

Requests == [difficulty : Difficulties, numberOfQuestions : 0..MaxCount, questionType : RequestTypes]

\* The key that leaves the count out.
CacheKey_noCount(req) == <<"questions", req.difficulty, 0, req.questionType>>

\* `questions:${jobRole}:${company}:${experience}:${difficulty}:${numberOfQuestions}:${questionType || "all"}`
\* for the one job role, company and experience of the client.
CacheKey(req) == <<"questions", req.difficulty, req.numberOfQuestions, req.questionType>>

\* CacheService.set
CacheSet(c, key, data, ttl, t) ==
    [k \in DOMAIN c \cup {key} |->
        IF k = key THEN [data |-> data, expiresAt |-> t + ttl] ELSE c[k]]

\* CacheService.get that reads the entry without looking at its expiry.
CacheGet_noExpiry(c, key, t) ==
    IF key \notin DOMAIN c THEN [hit |-> FALSE, data |-> <<>>, cache |-> c]
    ELSE [hit |-> TRUE, data |-> c[key].data, cache |-> c]

\* CacheService.get: the data (hit) or null, and the cache it leaves.
CacheGet(c, key, t) ==
    IF key \notin DOMAIN c THEN [hit |-> FALSE, data |-> <<>>, cache |-> c]
    ELSE IF t > c[key].expiresAt
         THEN [hit |-> FALSE, data |-> <<>>,
               cache |-> [k \in DOMAIN c \ {key} |-> c[k]]]
         ELSE [hit |-> TRUE, data |-> c[key].data, cache |-> c]

\* What the text of the backend is to generateQuestions.
UpstreamClass(up) ==
    IF up.kind = "reject" THEN "reject"
    ELSE LET parsed == JsonParse(up.text)
         IN  IF parsed = "SyntaxError" THEN "notJson"
             ELSE IF parsed = "array" THEN "array"
             ELSE "notArray"

\* q.type of a null element throws a TypeError.
FilterThrows(list, questionType) ==
    questionType # "all" /\ \E k \in 1..Len(list) : list[k].type = "null"

\* The two try blocks once generateContent has settled: the questions
\* returned, where they come from, and whether they are cached.
TryQuestions(req, up) ==
    LET class == UpstreamClass(up)
        fallback == [source |-> "fallback", cached |-> FALSE,
                     questions |-> getFallbackQuestions(req.difficulty,
                                       req.numberOfQuestions, req.questionType)]
    IN  IF class \in {"reject", "notJson"} THEN fallback
        ELSE LET parsedQuestions == IF class = "array" THEN up.arr ELSE <<>>
             IN  IF FilterThrows(parsedQuestions, req.questionType) THEN fallback
                 ELSE [source |-> "upstream", cached |-> TRUE,
                       questions |-> Slice(FilterIfSpecific(parsedQuestions, req.questionType),
                                           req.numberOfQuestions)]

NoRequest == [difficulty |-> "medium", numberOfQuestions |-> 0, questionType |-> "all"]
NoQuestions == [source |-> "none", upstream |-> "none", questions |-> <<>>]

GqIdle ==
    /\ cache = <<>>
    /\ cacheNow = 0
    /\ difficulty = "medium"
    /\ gqPc = "idle"
    /\ gqReq = NoRequest
    /\ gqReturn = NoQuestions
    /\ gqCalls = 0

\* generateQuestions is called: the cache is looked up; a hit is returned,
\* a miss suspends the call on model.generateContent.
GqInvoke(req) ==
    /\ gqPc = "idle"
    /\ gqCalls < MaxGenCalls
    /\ LET got == CacheGet(cache, CacheKey(req), cacheNow)
       IN  /\ cache' = got.cache
           /\ gqReq' = req
           /\ gqPc' = IF got.hit THEN "returned" ELSE "awaiting"
           /\ gqReturn' = IF got.hit
                          THEN [source |-> "cache", upstream |-> "none",
                                questions |-> got.data]
                          ELSE NoQuestions
    /\ gqCalls' = gqCalls + 1

\* generateQuestions called by the one client of the service.
GqCall ==
    /\ \E req \in Requests :
          /\ req.difficulty = difficulty
          /\ GqInvoke(req)
    /\ UNCHANGED <<cacheNow, difficulty, fbVars, progVars, rtVars, bmVars, mfVars, csVars>>

\* generateQuestions from the settled await to its return, for a backend
\* that behaves in one of the given ways.
GqSettleFrom(behaviours) ==
    /\ gqPc = "awaiting"
    /\ \E up \in behaviours :
          LET r == TryQuestions(gqReq, up)
          IN  /\ cache' = IF r.cached
                          THEN CacheSet(cache, CacheKey(gqReq), r.questions,
                                        QuestionsTtl, cacheNow)
                          ELSE cache
              /\ gqReturn' = [source |-> r.source, upstream |-> UpstreamClass(up),
                              questions |-> r.questions]
    /\ gqPc' = "returned"
    /\ UNCHANGED <<cacheNow, difficulty, gqReq, gqCalls>>

\* The backend settles and the rest of generateQuestions runs to its return.
GqSettle ==
    /\ GqSettleFrom(UpstreamQuestionBehaviours)
    /\ UNCHANGED <<fbVars, progVars, rtVars, bmVars, mfVars, csVars>>

\* The caller has taken the result of the call.
GqReset ==
    /\ gqPc' = "idle"
    /\ gqReq' = NoRequest
    /\ gqReturn' = NoQuestions

\* The caller is done with the result; the service takes the next call.
GqNextCall ==
    /\ gqPc = "returned"
    /\ GqReset
    /\ UNCHANGED <<cache, cacheNow, difficulty, gqCalls, fbVars, progVars, rtVars, bmVars, mfVars, csVars>>

\* More than the TTL passes.
GqTick ==
    /\ cacheNow < LastTick
    /\ cacheNow' = LastTick
    /\ UNCHANGED <<cache, difficulty, gqPc, gqReq, gqReturn, gqCalls, fbVars, progVars, rtVars, bmVars, mfVars, csVars>>

(***************************************************************************)
(* Route handlers                                                          *)
(***************************************************************************)

\* Requests the routes serve in one behaviour.
MaxRequests == 2

QuestionRoutes == {"api.generate-questions", "db.generate-questions"}
FeedbackRoute == "api.generate-feedback"

\* A real column holding NaN, next to NULL (RatNull).
NaN == [n |-> 1, d |-> 0]

NoRow ==
    [relevanceScore |-> RatNull, clarityScore |-> RatNull,
     depthScore |-> RatNull, overallScore |-> RatNull]

NoInterviewId == [kind |-> "none", id |-> 0]

\* No response sent yet: res.headersSent is false.
NoResponse ==
    [status |-> 0, questions |-> <<>>, interviewId |-> NoInterviewId,
     saved |-> "absent", feedback |-> NoRow]

ErrorResponse(status) == [NoResponse EXCEPT !.status = status]

\* The body of a request, with the fields the handlers read.  userId says
\* whether the field is there; words is the length of the answer.
NoRouteRequest ==
    [route |-> "none", userId |-> FALSE, difficulty |-> "absent",
     numberOfQuestions |-> 0, questionType |-> "absent", words |-> 0]

\* numberOfQuestions of a body: 3 passes the validator (1..20) and is not
\* one of the counts the handler accepts.
BodyCounts == {3, 10}
BodyTypes == {"technical"}

\* What the backend answers the question prompt of a request with: no
\* answer, text that is not JSON, an object, and arrays of no or one
\* question.
RouteQuestionUpstreams ==
    {[kind |-> "reject", text |-> <<>>, arr |-> <<>>],
     [kind |-> "text", text |-> <<"junk">>, arr |-> <<>>],
     [kind |-> "text", text |-> <<"{obj}">>, arr |-> <<>>]}
    \cup [kind : {"text"}, text : {<<"[arr]">>},
          arr : {<<>>} \cup {<<q>> : q \in {e \in UpstreamElements : e.type # "null"}}]

QuestionBodies ==
    [route : QuestionRoutes, userId : BOOLEAN, difficulty : {difficulty},
     numberOfQuestions : BodyCounts, questionType : BodyTypes, words : {0}]

\* The parameters the handler calls generateQuestions with.
ValidRequest(body) ==
    IF body.route = "db.generate-questions"
    THEN [difficulty |-> "medium", numberOfQuestions |-> 5, questionType |-> "all"]
    ELSE [difficulty |-> IF body.difficulty \in Difficulties
                         THEN body.difficulty ELSE "medium",
          numberOfQuestions |-> IF body.numberOfQuestions \in {5, 10, 15, 20}
                                THEN body.numberOfQuestions ELSE 5,
          questionType |-> IF body.questionType \in RequestTypes
                           THEN body.questionType ELSE "all"]

\* A response written over the one the client already has.
Respond_overwrite(res) == res

\* res.json / res.status(..).json once the timeout has answered: the call
\* throws, the catch block's own response throws too, and the client keeps
\* what it has.
Respond(res) == IF rtRes.status = 0 THEN res ELSE rtRes

\* What the database does for the handler: the statements succeed, the
\* user of the db route is not found, or the database is unreachable.
DbOutcomes == {"ok", "noUser", "down"}

\* The interview row is created when the database is there, and for the db
\* route when the body names a user that exists.
Creates(body, db) ==
    /\ db = "ok"
    /\ body.route = "db.generate-questions" => body.userId

\* The response the interview was not saved for, by handler.
UnsavedResponse_fatal(body, questions) == ErrorResponse(500)

UnsavedResponse(body, questions) ==
    IF body.route = "api.generate-questions"
    THEN [NoResponse EXCEPT !.status = 200, !.questions = questions,
                            !.interviewId = [kind |-> "temp", id |-> 0]]
    ELSE [NoResponse EXCEPT !.status = 200, !.questions = questions,
                            !.saved = "false"]

\* The response of the generate-questions handlers.
QuestionsResponse(body, questions, db, newId) ==
    IF ~Creates(body, db) THEN UnsavedResponse(body, questions)
    ELSE IF body.route = "api.generate-questions"
    THEN [NoResponse EXCEPT !.status = 200, !.questions = questions,
                            !.interviewId = [kind |-> "db", id |-> newId]]
    ELSE [NoResponse EXCEPT !.status = 200, !.questions = questions,
                            !.interviewId = [kind |-> "db", id |-> newId],
                            !.saved = "true"]

RtIdle ==
    /\ rtPc = "idle"
    /\ rtReq = NoRouteRequest
    /\ rtRes = NoResponse
    /\ rtCount = 0
    /\ interviews = <<>>

\* A generate-questions handler up to its await of generateQuestions; the
\* api route answers 400 when the body names no user.
RqReceive ==
    /\ rtPc = "idle"
    /\ rtCount < MaxRequests
    /\ \E body \in QuestionBodies :
          /\ rtReq' = body
          /\ IF body.route = "api.generate-questions" /\ ~body.userId
             THEN /\ rtPc' = "done"
                  /\ rtRes' = ErrorResponse(400)
                  /\ UNCHANGED <<cache, gqPc, gqReq, gqReturn, gqCalls>>
             ELSE /\ GqInvoke(ValidRequest(body))
                  /\ rtPc' = "generating"
                  /\ rtRes' = NoResponse
    /\ rtCount' = rtCount + 1
    /\ UNCHANGED <<cacheNow, difficulty, interviews, fbVars, progVars, bmVars, mfVars, csVars>>

\* The backend settles for the request and generateQuestions returns.
RqSettle ==
    /\ rtPc = "generating"
    /\ GqSettleFrom(RouteQuestionUpstreams)
    /\ UNCHANGED <<fbVars, progVars, rtVars, bmVars, mfVars, csVars>>

\* generateQuestions has returned: the interview is created or not, and
\* the handler responds.
RqPersist ==
    /\ rtPc = "generating"
    /\ gqPc = "returned"
    /\ \E db \in DbOutcomes :
          /\ rtRes' = Respond(QuestionsResponse(rtReq, gqReturn.questions, db,
                                                Len(interviews) + 1))
          /\ interviews' = IF Creates(rtReq, db)
                           THEN Append(interviews, 1) ELSE interviews
    /\ rtPc' = "done"
    /\ UNCHANGED <<rtReq, rtCount, gqVars, fbVars, progVars, bmVars, mfVars, csVars>>

\* The timer of timeoutMiddleware fires while the handler is suspended.
RtTimeout ==
    /\ rtPc \in {"generating", "evaluating"}
    /\ rtRes.status = 0
    /\ rtRes' = ErrorResponse(408)
    /\ UNCHANGED <<rtPc, rtReq, rtCount, interviews, gqVars, fbVars, progVars, bmVars, mfVars, csVars>>

\* Lengths of the answers sent for feedback, in words.
AnswerWords == {5, 50}

FeedbackBodies ==
    [route : {FeedbackRoute}, userId : BOOLEAN, difficulty : {"absent"},
     numberOfQuestions : {0}, questionType : {"absent"}, words : AnswerWords]

\* Objects the backend answers the feedback prompt of a request with: the
\* four scores, a record without starMethodScore, scores off the scale.
RouteObjects ==
    {[relevanceScore |-> Num(8), clarityScore |-> Num(6),
      depthScore |-> Num(7), starMethodScore |-> Num(9)],
     [relevanceScore |-> Num(5), clarityScore |-> Num(5),
      depthScore |-> Num(5), starMethodScore |-> Undefined],
     [relevanceScore |-> Num(11), clarityScore |-> Num(-1),
      depthScore |-> Num(5), starMethodScore |-> Num(5)]}

RouteUpstreams ==
    {[kind |-> "reject", text |-> <<>>, obj |-> EmptyObject],
     [kind |-> "textThrows", text |-> <<>>, obj |-> EmptyObject],
     [kind |-> "text", text |-> <<"junk">>, obj |-> EmptyObject],
     [kind |-> "text", text |-> <<"null">>, obj |-> EmptyObject]}
    \cup [kind : {"text"}, text : {<<FenceJson, "{obj}", Fence>>}, obj : RouteObjects]

\* A score property as the column of the row: a missing property leaves
\* the column NULL.
ToReal(x) == IF x.t = "number" THEN RatInt(x.v) ELSE RatNull

\* The mean of relevance, clarity and depth alone.
OverallOf_threeScores(feedback) ==
    IF \A f \in ScoreFields : feedback[f].t = "number"
    THEN Rat(feedback.relevanceScore.v + feedback.clarityScore.v
             + feedback.depthScore.v, 3)
    ELSE NaN

\* (relevance + clarity + depth + starMethod) / 4 on the properties of the
\* feedback object: undefined makes the sum NaN.
OverallOf(feedback) ==
    IF \A f \in ScoreFields : feedback[f].t = "number"
    THEN Rat(feedback.relevanceScore.v + feedback.clarityScore.v
             + feedback.depthScore.v + feedback.starMethodScore.v, 4)
    ELSE NaN

\* The row the handler passes to saveAnswer.
AnswerRow(feedback) ==
    [relevanceScore |-> ToReal(feedback.relevanceScore),
     clarityScore |-> ToReal(feedback.clarityScore),
     depthScore |-> ToReal(feedback.depthScore),
     overallScore |-> OverallOf(feedback)]

\* updateUserProgress run without another call in between.
ProgressAfter(row) ==
    LET scores == [f \in {"relevanceScore", "clarityScore", "depthScore"} |-> row[f]]
    IN  IF userProgress.exists
        THEN UpdatedProgress(zone, userProgress, scores, now)
        ELSE InsertedProgress(scores, now)

\* POST /generate-feedback up to its await of generateFeedback; 400 when
\* the body lacks a field.
RfReceive ==
    /\ rtPc = "idle"
    /\ rtCount < MaxRequests
    /\ \E body \in FeedbackBodies :
          /\ rtReq' = body
          /\ IF ~body.userId
             THEN /\ rtPc' = "done"
                  /\ rtRes' = ErrorResponse(400)
                  /\ UNCHANGED fbVars
             ELSE /\ FbInvoke
                  /\ rtPc' = "evaluating"
                  /\ rtRes' = NoResponse
    /\ rtCount' = rtCount + 1
    /\ UNCHANGED <<interviews, gqVars, progVars, bmVars, mfVars, csVars>>

\* The backend settles for the request and generateFeedback returns.
RfSettle ==
    /\ rtPc = "evaluating"
    /\ FbSettleFrom(RouteUpstreams)
    /\ UNCHANGED <<rtVars, gqVars, progVars, bmVars, mfVars, csVars>>

\* What the database does for saveAnswer: both statements go through, the
\* insert of the answer rejects, or the insert goes through and
\* updateUserProgress rejects.
SaveOutcomes == {"ok", "down", "progressDown"}

\* The rows of table answers had the insert been undone with the update
\* that failed.
StoredAfterSave_rollback(rows, row, outcome) ==
    IF outcome = "ok" THEN Append(rows, row) ELSE rows

\* The rows of table answers after saveAnswer: the insert is a statement
\* of its own, not part of a transaction with the update of the progress.
StoredAfterSave(rows, row, outcome) ==
    IF outcome = "down" THEN rows ELSE Append(rows, row)

\* generateFeedback has settled: the overall score is computed, saveAnswer
\* runs and the handler responds; reading a score of null, a rejected
\* generateFeedback or a rejected saveAnswer end in the catch block.
RfSave ==
    /\ rtPc = "evaluating"
    /\ fbPc \in {"returned", "thrown"}
    /\ \E db \in SaveOutcomes :
          IF fbPc = "returned" /\ fbReturn.kind = "object"
          THEN LET savedAnswer == AnswerRow(fbReturn.value)
               IN  /\ answers' = StoredAfterSave(answers, savedAnswer, db)
                   /\ IF db = "ok"
                      THEN /\ userProgress' = ProgressAfter(savedAnswer)
                           /\ progressRows' = 1
                           /\ settled' = [settled EXCEPT !.returned = @ + 1]
                           /\ rtRes' = Respond([NoResponse EXCEPT !.status = 200,
                                                                  !.feedback = savedAnswer])
                      ELSE /\ settled' = IF db = "down"
                                         THEN [settled EXCEPT !.notInserted = @ + 1]
                                         ELSE [settled EXCEPT !.rejected = @ + 1]
                           /\ rtRes' = Respond(ErrorResponse(500))
                           /\ UNCHANGED <<userProgress, progressRows>>
          ELSE /\ rtRes' = Respond(ErrorResponse(500))
               /\ UNCHANGED <<answers, userProgress, progressRows, settled>>
    /\ rtPc' = "done"
    /\ UNCHANGED <<rtReq, rtCount, interviews, calls, now, zone, fbVars, gqVars, bmVars, mfVars, csVars>>

\* The exchange is over; the services take the next call.
RtNext ==
    /\ rtPc = "done"
    /\ rtPc' = "idle"
    /\ rtReq' = NoRouteRequest
    /\ rtRes' = NoResponse
    /\ GqReset
    /\ FbReset
    /\ UNCHANGED <<rtCount, interviews, cache, cacheNow, difficulty, gqCalls,
                   progVars, bmVars, mfVars, csVars>>

(***************************************************************************)
(* Bookmarks and lookups                                                   *)
(***************************************************************************)

\* Bookmark and lookup requests served in one behaviour.
MaxBmRequests == 3
\* BookmarkService calls in flight at once.
MaxBmInFlight == 2

Users == {1, 2}
SetIds == {1, 2}
InterviewIds == {1, 2}

BookmarkOps == {"toggleFavorite", "incrementPracticeCount", "removeQuestionSet"}

NoSet == [exists |-> FALSE, userId |-> 0, isFavorite |-> FALSE, practiceCount |-> 0]

\* Set 1 was saved by user 1 (isFavorite and practiceCount at their
\* defaults); there is no set 2.
InitialSets ==
    [id \in SetIds |->
        IF id = 1
        THEN [exists |-> TRUE, userId |-> 1, isFavorite |-> FALSE, practiceCount |-> 0]
        ELSE NoSet]

NoBmResponse ==
    [route |-> "none", id |-> 0, userId |-> 0, status |-> 0,
     found |-> FALSE, hasData |-> FALSE, data |-> NoSet]

\* The value toggleFavorite writes that keeps what it read.
ToggledValue_keep(set) == set.isFavorite

\* !set.isFavorite
ToggledValue(set) == ~set.isFavorite

\* A row matches whatever user asks for it.
SelectMatches_anyUser(row, userId) == row.exists

\* The where clause of the select of toggleFavorite and
\* incrementPracticeCount, and of the delete of removeQuestionSet.
SelectMatches(row, userId) == row.exists /\ row.userId = userId

\* The status of the catch block of the bookmark routes and of the history
\* route, whatever was thrown.
CatchStatus(found) == 500

BmIdle ==
    /\ savedQuestionSets = InitialSets
    /\ bmCalls = <<>>
    /\ bmRes = NoBmResponse
    /\ bmCount = 0

\* A bookmark route calls its BookmarkService method, which suspends on
\* its first statement.
BmReceive ==
    /\ bmCount < MaxBmRequests
    /\ Len(bmCalls) < MaxBmInFlight
    /\ \E op \in BookmarkOps, setId \in SetIds, userId \in Users :
          bmCalls' = Append(bmCalls,
              [op |-> op, setId |-> setId, userId |-> userId,
               pc |-> IF op = "removeQuestionSet" THEN "deleting" ELSE "selecting",
               set |-> NoSet])
    /\ bmCount' = bmCount + 1
    /\ UNCHANGED <<savedQuestionSets, bmRes, fbVars, progVars, gqVars, rtVars, mfVars, csVars>>

\* The select of toggleFavorite / incrementPracticeCount returns: without
\* a row the method throws and the route answers from its catch block.
BmSelect(i) ==
    /\ bmCalls[i].pc = "selecting"
    /\ LET c == bmCalls[i]
           row == savedQuestionSets[c.setId]
       IN  IF SelectMatches(row, c.userId)
           THEN /\ bmCalls' = [bmCalls EXCEPT ![i].pc = "updating", ![i].set = row]
                /\ UNCHANGED bmRes
           ELSE /\ bmCalls' = Without(bmCalls, i)
                /\ bmRes' = [route |-> c.op, id |-> c.setId, userId |-> c.userId,
                             status |-> CatchStatus(FALSE), found |-> FALSE,
                             hasData |-> FALSE, data |-> NoSet]
    /\ UNCHANGED <<savedQuestionSets, bmCount, fbVars, progVars, gqVars, rtVars, mfVars, csVars>>

\* The update where(eq(id, setId)) returns.  When the row has gone in the
\* meantime nothing is returned: toggleFavorite throws reading it,
\* incrementPracticeCount returns undefined.
BmUpdate(i) ==
    /\ bmCalls[i].pc = "updating"
    /\ LET c == bmCalls[i]
           row == savedQuestionSets[c.setId]
           updated == IF c.op = "toggleFavorite"
                      THEN [row EXCEPT !.isFavorite = ToggledValue(c.set)]
                      ELSE [row EXCEPT !.practiceCount = c.set.practiceCount + 1]
       IN  IF row.exists
           THEN /\ savedQuestionSets' = [savedQuestionSets EXCEPT ![c.setId] = updated]
                /\ bmRes' = [route |-> c.op, id |-> c.setId, userId |-> c.userId,
                             status |-> 200, found |-> TRUE,
                             hasData |-> TRUE, data |-> updated]
           ELSE /\ UNCHANGED savedQuestionSets
                /\ bmRes' = [route |-> c.op, id |-> c.setId, userId |-> c.userId,
                             status |-> IF c.op = "toggleFavorite"
                                        THEN CatchStatus(TRUE) ELSE 200,
                             found |-> TRUE, hasData |-> FALSE, data |-> NoSet]
    /\ bmCalls' = Without(bmCalls, i)
    /\ UNCHANGED <<bmCount, fbVars, progVars, gqVars, rtVars, mfVars, csVars>>

\* The delete of removeQuestionSet returns the rows it deleted; none is an
\* error.
BmDelete(i) ==
    /\ bmCalls[i].pc = "deleting"
    /\ LET c == bmCalls[i]
           row == savedQuestionSets[c.setId]
       IN  IF SelectMatches(row, c.userId)
           THEN /\ savedQuestionSets' = [savedQuestionSets EXCEPT ![c.setId] = NoSet]
                /\ bmRes' = [route |-> c.op, id |-> c.setId, userId |-> c.userId,
                             status |-> 200, found |-> TRUE,
                             hasData |-> FALSE, data |-> NoSet]
           ELSE /\ UNCHANGED savedQuestionSets
                /\ bmRes' = [route |-> c.op, id |-> c.setId, userId |-> c.userId,
                             status |-> CatchStatus(FALSE), found |-> FALSE,
                             hasData |-> FALSE, data |-> NoSet]
    /\ bmCalls' = Without(bmCalls, i)
    /\ UNCHANGED <<bmCount, fbVars, progVars, gqVars, rtVars, mfVars, csVars>>

\* GET /interview-details/:interviewId: the interview by id alone; 404
\* when there is none.
GetInterviewDetails ==
    /\ bmCount < MaxBmRequests
    /\ \E id \in InterviewIds, userId \in Users :
          LET found == id \in DOMAIN interviews
          IN  bmRes' = [route |-> "api.interview-details", id |-> id, userId |-> userId,
                        status |-> IF found THEN 200 ELSE 404, found |-> found,
                        hasData |-> found, data |-> NoSet]
    /\ bmCount' = bmCount + 1
    /\ UNCHANGED <<savedQuestionSets, bmCalls, fbVars, progVars, gqVars, rtVars, mfVars, csVars>>

\* GET /api/history/interviews/:id: HistoryService.getInterviewDetails
\* throws without a row of the user, and the route answers from its catch
\* block.
GetHistoryInterview ==
    /\ bmCount < MaxBmRequests
    /\ \E id \in InterviewIds, userId \in Users :
          LET found == id \in DOMAIN interviews /\ interviews[id] = userId
          IN  bmRes' = [route |-> "history.interviews", id |-> id, userId |-> userId,
                        status |-> IF found THEN 200 ELSE CatchStatus(FALSE),
                        found |-> found, hasData |-> found, data |-> NoSet]
    /\ bmCount' = bmCount + 1
    /\ UNCHANGED <<savedQuestionSets, bmCalls, fbVars, progVars, gqVars, rtVars, mfVars, csVars>>

(***************************************************************************)
(* Memoized feedback (AIService.generateFeedback)                          *)
(***************************************************************************)

\* Calls of the memoized generateFeedback made in one behaviour.
MaxMemoCalls == 3
\* substring(0, 50): the characters of an input that enter the cache key.
KeyChars == 50
\* The TTL of a cached feedback (1800000 ms), in units of 30 minutes.
FeedbackTtl == 1

\* Strings are sequences of characters.
\* String.prototype.substring(0, n)
Substring(str, n) == SubSeq(str, 1, IF n < Len(str) THEN n ELSE Len(str))

\* A text of exactly KeyChars characters, and the texts that continue it.
FiftyChars == [k \in 1..KeyChars |-> "a"]
LongTexts == {FiftyChars \o <<c>> : c \in {"x", "y"}}

\* Questions and answers the client sends: short ones, some holding a
\* colon, and answers that differ only after their first KeyChars
\* characters.
MemoQuestions == {<<"q">>, <<"q", ":", "r">>}
MemoAnswers == {<<"s">>, <<"r", ":", "s">>} \cup LongTexts

\* `feedback:${question.substring(0, 50)}:${answer.substring(0, 50)}`
FeedbackKey(question, answer) ==
    <<"feedback", ":">> \o Substring(question, KeyChars) \o <<":">>
        \o Substring(answer, KeyChars)

\* A feedback text: the inputs of the prompt it answers, and whether it is
\* the empty string.
NoMemoRequest == [question |-> <<>>, answer |-> <<>>]
FeedbackText(req, empty) == [question |-> req.question, answer |-> req.answer, empty |-> empty]
NoFeedbackText == FeedbackText(NoMemoRequest, TRUE)
NoMemoReturn == [from |-> "none", text |-> NoFeedbackText]

\* What the backend does for the prompt: generateContent rejects, or a
\* text comes back, possibly empty.
MemoUpstreams == {"reject", "text", "emptyText"}

MfIdle ==
    /\ mfPc = "idle"
    /\ mfReq = NoMemoRequest
    /\ mfReturn = NoMemoReturn
    /\ mfCalls = 0

\* generateFeedback is called: the cache is looked up, a truthy entry is
\* returned, anything else suspends the call on model.generateContent.
MfCall ==
    /\ mfPc = "idle"
    /\ mfCalls < MaxMemoCalls
    /\ \E question \in MemoQuestions, answer \in MemoAnswers :
          LET got == CacheGet(cache, FeedbackKey(question, answer), cacheNow)
              cached == got.hit /\ ~got.data.empty
          IN  /\ cache' = got.cache
              /\ mfReq' = [question |-> question, answer |-> answer]
              /\ mfPc' = IF cached THEN "returned" ELSE "awaiting"
              /\ mfReturn' = IF cached
                             THEN [from |-> "cache", text |-> got.data]
                             ELSE NoMemoReturn
    /\ mfCalls' = mfCalls + 1
    /\ UNCHANGED <<cacheNow, difficulty, gqPc, gqReq, gqReturn, gqCalls,
                   fbVars, progVars, rtVars, bmVars, csVars>>

\* The backend settles: its text is cached for FeedbackTtl and returned,
\* a rejection ends in the fixed text of the catch block.
MfSettle ==
    /\ mfPc = "awaiting"
    /\ \E up \in MemoUpstreams :
          IF up = "reject"
          THEN /\ mfReturn' = [from |-> "catch", text |-> NoFeedbackText]
               /\ UNCHANGED cache
          ELSE LET feedback == FeedbackText(mfReq, up = "emptyText")
               IN  /\ cache' = CacheSet(cache, FeedbackKey(mfReq.question, mfReq.answer),
                                        feedback, FeedbackTtl, cacheNow)
                   /\ mfReturn' = [from |-> "upstream", text |-> feedback]
    /\ mfPc' = "returned"
    /\ UNCHANGED <<mfReq, mfCalls, cacheNow, difficulty, gqPc, gqReq, gqReturn, gqCalls,
                   fbVars, progVars, rtVars, bmVars, csVars>>

\* The caller is done with the result; the service takes the next call.
MfNextCall ==
    /\ mfPc = "returned"
    /\ mfPc' = "idle"
    /\ mfReq' = NoMemoRequest
    /\ mfReturn' = NoMemoReturn
    /\ UNCHANGED <<mfCalls, gqVars, fbVars, progVars, rtVars, bmVars, csVars>>

\* More than the TTL of a feedback passes.
MfTick ==
    /\ cacheNow <= FeedbackTtl
    /\ cacheNow' = cacheNow + FeedbackTtl + 1
    /\ UNCHANGED <<cache, difficulty, gqPc, gqReq, gqReturn, gqCalls, mfVars,
                   fbVars, progVars, rtVars, bmVars, csVars>>

(***************************************************************************)
(* CacheService on its own                                                 *)
(***************************************************************************)

\* CacheService calls made in one behaviour.
MaxCacheCalls == 4
\* The last instant the clock of the cache reaches.
MaxCacheTime == 3

CacheKeys == {"k1", "k2"}
CacheData == {"v", "w"}
\* The ttl of a set, in units of the clock.
CacheTtls == {0, 1}

NeverSet == [set |-> FALSE, data |-> "none", at |-> 0, ttl |-> 0, live |-> FALSE]
NoGet == [n |-> 0, key |-> "none", hit |-> FALSE, data |-> "none"]

CsIdle ==
    /\ csLast = [k \in CacheKeys |-> NeverSet]
    /\ csGot = NoGet
    /\ csCount = 0

\* CacheService.delete
CacheDelete(c, key) == [k \in DOMAIN c \ {key} |-> c[k]]

\* CacheService.clearExpired
CacheClearExpired(c, t) ==
    [k \in {j \in DOMAIN c : ~(t > c[j].expiresAt)} |-> c[k]]

\* CacheService.set(key, data, ttl)
CsSet ==
    /\ csCount < MaxCacheCalls
    /\ \E key \in CacheKeys, data \in CacheData, ttl \in CacheTtls :
          /\ cache' = CacheSet(cache, key, data, ttl, cacheNow)
          /\ csLast' = [csLast EXCEPT ![key] =
                           [set |-> TRUE, data |-> data, at |-> cacheNow,
                            ttl |-> ttl, live |-> TRUE]]
    /\ csCount' = csCount + 1
    /\ UNCHANGED <<csGot, cacheNow, difficulty, gqPc, gqReq, gqReturn, gqCalls,
                   fbVars, progVars, rtVars, bmVars, mfVars>>

\* CacheService.get(key)
CsGet ==
    /\ csCount < MaxCacheCalls
    /\ \E key \in CacheKeys :
          LET got == CacheGet(cache, key, cacheNow)
          IN  /\ cache' = got.cache
              /\ csGot' = [n |-> csCount + 1, key |-> key, hit |-> got.hit,
                           data |-> IF got.hit THEN got.data ELSE "none"]
    /\ csCount' = csCount + 1
    /\ UNCHANGED <<csLast, cacheNow, difficulty, gqPc, gqReq, gqReturn, gqCalls,
                   fbVars, progVars, rtVars, bmVars, mfVars>>

\* CacheService.delete(key)
CsDelete ==
    /\ csCount < MaxCacheCalls
    /\ \E key \in CacheKeys :
          /\ cache' = CacheDelete(cache, key)
          /\ csLast' = [csLast EXCEPT ![key].live = FALSE]
    /\ csCount' = csCount + 1
    /\ UNCHANGED <<csGot, cacheNow, difficulty, gqPc, gqReq, gqReturn, gqCalls,
                   fbVars, progVars, rtVars, bmVars, mfVars>>

\* CacheService.clear()
CsClear ==
    /\ csCount < MaxCacheCalls
    /\ cache' = <<>>
    /\ csLast' = [k \in CacheKeys |-> [csLast[k] EXCEPT !.live = FALSE]]
    /\ csCount' = csCount + 1
    /\ UNCHANGED <<csGot, cacheNow, difficulty, gqPc, gqReq, gqReturn, gqCalls,
                   fbVars, progVars, rtVars, bmVars, mfVars>>

\* CacheService.clearExpired(), called by a client or by the interval of
\* initCleanup.
CsClearExpired ==
    /\ csCount < MaxCacheCalls
    /\ cache' = CacheClearExpired(cache, cacheNow)
    /\ csCount' = csCount + 1
    /\ UNCHANGED <<csLast, csGot, cacheNow, difficulty, gqPc, gqReq, gqReturn, gqCalls,
                   fbVars, progVars, rtVars, bmVars, mfVars>>

\* Date.now() moves on.
CsTick ==
    /\ cacheNow < MaxCacheTime
    /\ cacheNow' = cacheNow + 1
    /\ UNCHANGED <<cache, difficulty, gqPc, gqReq, gqReturn, gqCalls,
                   fbVars, progVars, rtVars, bmVars, mfVars, csVars>>

(***************************************************************************)
(* Specifications                                                          *)
(***************************************************************************)

FeedbackInit == FbIdle /\ ProgIdle /\ GqIdle /\ RtIdle /\ BmIdle /\ MfIdle /\ CsIdle

FeedbackNext == FbCall \/ FbSettle \/ FbNextCall

SpecFeedback == FeedbackInit /\ [][FeedbackNext]_vars

\* A user who has not answered yet, in any zone.
SeqInit ==
    /\ FbIdle
    /\ GqIdle
    /\ RtIdle
    /\ BmIdle /\ MfIdle /\ CsIdle
    /\ answers = <<>>
    /\ userProgress = NoProgress
    /\ progressRows = 0
    /\ calls = <<>>
    /\ settled = [returned |-> 0, rejected |-> 0, notInserted |-> 0]
    /\ now = StartOfTime
    /\ zone \in Zones

TickSeq == Tick(MaxDay)

SeqNext ==
    \/ SaveAnswerAlone
    \/ SaveAnswerInsertFails
    \/ \E i \in 1..Len(calls) : SelectProgress(i)
    \/ \E i \in 1..Len(calls) : UpdateProgress(i)
    \/ \E i \in 1..Len(calls) : InsertProgress(i)
    \/ TickSeq

SpecSeq == SeqInit /\ [][SeqNext]_vars

\* A user who has not answered yet, or one who answered once before the
\* modelled calls; the zone has no daylight saving.
ConcInit ==
    /\ FbIdle
    /\ GqIdle
    /\ RtIdle
    /\ BmIdle /\ MfIdle /\ CsIdle
    /\ \/ answers = <<>> /\ userProgress = NoProgress /\ progressRows = 0
       \/ /\ answers = <<FirstAnswer>>
          /\ progressRows = 1
          /\ userProgress =
                 InsertedProgress([f \in {"relevanceScore", "clarityScore", "depthScore"}
                                      |-> FirstAnswer[f]], StartOfTime)
    /\ calls = <<>>
    /\ settled = [returned |-> 0, rejected |-> 0, notInserted |-> 0]
    /\ now = StartOfTime
    /\ zone = NoDst

TickConc == Tick(MaxConcDay)

ConcNext ==
    \/ SaveAnswerAlone
    \/ SaveAnswerOverlapping
    \/ \E i \in 1..Len(calls) : SelectProgress(i)
    \/ \E i \in 1..Len(calls) : UpdateProgress(i)
    \/ \E i \in 1..Len(calls) : InsertProgress(i)
    \/ \E i \in 1..Len(calls) : InsertProgressConflict(i)
    \/ TickConc

SpecConc == ConcInit /\ [][ConcNext]_vars

\* One client: the difficulty of its requests is fixed, their count and
\* type vary from call to call.
QuestionsInit ==
    /\ FbIdle
    /\ ProgIdle
    /\ RtIdle
    /\ BmIdle /\ MfIdle /\ CsIdle
    /\ cache = <<>>
    /\ cacheNow = 0
    /\ difficulty \in Difficulties
    /\ gqPc = "idle"
    /\ gqReq = NoRequest
    /\ gqReturn = NoQuestions
    /\ gqCalls = 0

QuestionsNext == GqCall \/ GqSettle \/ GqNextCall \/ GqTick

SpecQuestions == QuestionsInit /\ [][QuestionsNext]_vars

\* The generate-questions routes serving one request at a time; the client
\* sends no difficulty, or the same one, in all its requests.
QuestionRoutesInit ==
    /\ FbIdle
    /\ ProgIdle
    /\ RtIdle
    /\ BmIdle /\ MfIdle /\ CsIdle
    /\ cache = <<>>
    /\ cacheNow = 0
    /\ difficulty \in {"absent", "hard"}
    /\ gqPc = "idle"
    /\ gqReq = NoRequest
    /\ gqReturn = NoQuestions
    /\ gqCalls = 0

QuestionRoutesNext ==
    \/ RqReceive
    \/ RqSettle
    \/ RqPersist
    \/ RtTimeout
    \/ RtNext

SpecQuestionRoutes == QuestionRoutesInit /\ [][QuestionRoutesNext]_vars

\* POST /generate-feedback serving one request at a time.
FeedbackRoutesInit == FbIdle /\ ProgIdle /\ GqIdle /\ RtIdle /\ BmIdle /\ MfIdle /\ CsIdle

FeedbackRoutesNext ==
    \/ RfReceive
    \/ RfSettle
    \/ RfSave
    \/ RtTimeout
    \/ RtNext

SpecFeedbackRoutes == FeedbackRoutesInit /\ [][FeedbackRoutesNext]_vars

\* The bookmark routes and the interview lookups; interview 1 belongs to
\* user 1 and there is no interview 2.
BookmarksInit ==
    /\ FbIdle
    /\ ProgIdle
    /\ GqIdle
    /\ BmIdle /\ MfIdle /\ CsIdle
    /\ rtPc = "idle"
    /\ rtReq = NoRouteRequest
    /\ rtRes = NoResponse
    /\ rtCount = 0
    /\ interviews = <<1>>

BookmarksNext ==
    \/ BmReceive
    \/ \E i \in 1..Len(bmCalls) : BmSelect(i)
    \/ \E i \in 1..Len(bmCalls) : BmUpdate(i)
    \/ \E i \in 1..Len(bmCalls) : BmDelete(i)
    \/ GetInterviewDetails
    \/ GetHistoryInterview

SpecBookmarks == BookmarksInit /\ [][BookmarksNext]_vars

\* The memoized generateFeedback serving one call at a time.
MemoInit == FbIdle /\ ProgIdle /\ GqIdle /\ RtIdle /\ BmIdle /\ MfIdle /\ CsIdle

MemoNext == MfCall \/ MfSettle \/ MfNextCall \/ MfTick

SpecMemo == MemoInit /\ [][MemoNext]_vars

\* Clients of the CacheService calling it one after the other.
CacheInit == FbIdle /\ ProgIdle /\ GqIdle /\ RtIdle /\ BmIdle /\ MfIdle /\ CsIdle

CacheNext == CsSet \/ CsGet \/ CsDelete \/ CsClear \/ CsClearExpired \/ CsTick

SpecCache == CacheInit /\ [][CacheNext]_vars

(***************************************************************************)
(* Properties                                                              *)
(***************************************************************************)

InRange(x) == x.t = "number" /\ 0 <= x.v /\ x.v <= 10

\* A text that is not JSON: it holds something that is no JSON token, or it
\* holds no JSON value at all.
NotJson(text) ==
    \/ \E k \in 1..Len(text) : text[k] \in {"junk", "{NaN}"}
    \/ \A k \in 1..Len(text) : text[k] \notin {"{obj}", "null"}

\* C1: when the upstream text parses as a JSON object, every score of the
\* record generateFeedback returns lies in [0,10], a missing one being 0.
C1_ScoresClamped ==
    (fbPc = "returned" /\ fbReturn.how = "parsed" /\ fbReturn.kind = "object")
        => \A f \in ScoreFields : InRange(fbReturn.value[f])

\* C2: generateFeedback never rejects: whatever the backend does the call
\* returns, and on a failed call, an empty text or a text that is not JSON it
\* returns the record of the catch block.
C2_NeverPropagates ==
    /\ fbPc # "thrown"
    /\ fbPc = "returned" =>
          /\ fbReturn.kind \in {"object", "null"}
          /\ (fbUpstream.kind \in {"reject", "textThrows"} \/ NotJson(fbUpstream.text))
                => (fbReturn.kind = "object" /\ fbReturn.value = FallbackFeedback)

C2_Witness ==
    /\ fbPc = "returned"
    /\ fbUpstream.kind = "text"
    /\ fbUpstream.text = <<FenceJson, "junk", Fence>>
    /\ fbReturn.how = "catch"

RECURSIVE SumOverall(_)
SumOverall(rows) ==
    IF rows = <<>> THEN RatInt(0)
    ELSE RatAdd(rows[1].overallScore, SumOverall(Tail(rows)))

MeanOverall(rows) == RatDivInt(SumOverall(rows), Len(rows))

\* C3: once the calls made one after the other have all returned, the
\* averageScore of the row is the mean of overallScore over the Answer rows.
C3_AverageIsMeanOfOverall ==
    (calls = <<>> /\ answers # <<>>)
        => userProgress.averageScore = MeanOverall(answers)

\* C4: in every state of the row, whatever the interleaving of the calls,
\* currentStreak <= longestStreak.
C4_StreakInvariant == userProgress.currentStreak <= userProgress.longestStreak

\* An update was lost: fewer answers counted than calls have returned for.
LostUpdate ==
    userProgress.totalQuestionsAnswered < Len(answers) - Len(calls) - settled.rejected

C4_Witness == LostUpdate /\ userProgress.currentStreak = 2

\* C5: totalQuestionsAnswered never decreases from one stored state to the
\* next, whatever the interleaving of the calls.
C5_TotalNeverDecreases ==
    [][userProgress'.totalQuestionsAnswered >= userProgress.totalQuestionsAnswered]_vars

\* The step in which the one call in flight updates the row it read.
UpdateStep ==
    /\ Len(calls) = 1
    /\ calls[1].pc = "selected"
    /\ calls[1].current.exists
    /\ calls' = <<>>

DaysApart == calls[1].today.day - calls[1].current.lastPracticeDate.day

Max(a, b) == IF a > b THEN a ELSE b

\* C6: an update on the calendar day after lastPracticeDate increments
\* currentStreak and makes longestStreak the larger of its old value and the
\* new streak.
C6_NextDayIncrements ==
    [][(UpdateStep /\ DaysApart = 1) =>
          /\ userProgress'.currentStreak = calls[1].current.currentStreak + 1
          /\ userProgress'.longestStreak =
                 Max(calls[1].current.longestStreak, calls[1].current.currentStreak + 1)]_vars

\* C7: an update two or more calendar days after lastPracticeDate sets
\* currentStreak to 1 and leaves longestStreak as it was.
C7_GapResets ==
    [][(UpdateStep /\ DaysApart >= 2) =>
          /\ userProgress'.currentStreak = 1
          /\ userProgress'.longestStreak = calls[1].current.longestStreak]_vars

C7_Witness ==
    /\ zone = NoDst
    /\ calls = <<>>
    /\ settled.returned = 3
    /\ userProgress.lastPracticeDate.day = 3
    /\ userProgress.currentStreak = 1
    /\ userProgress.longestStreak = 2

\* C8: an update on the calendar day of lastPracticeDate leaves currentStreak
\* and longestStreak as they were.
C8_SameDayUnchanged ==
    [][(UpdateStep /\ DaysApart = 0) =>
          /\ userProgress'.currentStreak = calls[1].current.currentStreak
          /\ userProgress'.longestStreak = calls[1].current.longestStreak]_vars

C8_Witness ==
    /\ calls = <<>>
    /\ settled.returned = 3
    /\ userProgress.totalQuestionsAnswered = 3
    /\ userProgress.lastPracticeDate = [set |-> TRUE, day |-> 1, tod |-> "late"]
    /\ userProgress.currentStreak = 2
    /\ userProgress.longestStreak = 2

\* C9: at most numberOfQuestions questions are returned, and for a specific
\* questionType every one of them has that type, whether they come from the
\* upstream array, from the fallback list or from the cache.
C9_CountAndType ==
    gqPc = "returned" =>
        /\ Len(gqReturn.questions) <= gqReq.numberOfQuestions
        /\ gqReq.questionType # "all" =>
              \A k \in 1..Len(gqReturn.questions) :
                  gqReturn.questions[k].type = gqReq.questionType

\* A list of the requested type and length served from the cache.
C9_Witness ==
    /\ gqPc = "returned"
    /\ gqReturn.source = "cache"
    /\ gqReq.questionType = "technical"
    /\ gqReq.numberOfQuestions = 1
    /\ Len(gqReturn.questions) = 1

\* C10: generateQuestions never throws, and when the upstream call fails,
\* its text is not JSON or the parsed value is not an array, it returns the
\* fallback list of the difficulty, filtered by type and cut to the count.
C10_FallbackOnBadUpstream ==
    (gqPc = "returned" /\ gqReturn.upstream \in {"reject", "notJson", "notArray"})
        => gqReturn.questions =
               getFallbackQuestions(gqReq.difficulty, gqReq.numberOfQuestions,
                                    gqReq.questionType)

\* C11: every 200 response of the generate-questions routes carries at least
\* one question, whatever the backend did and also when the questions come
\* from the cache.
C11_AtLeastOneQuestion ==
    (rtReq.route \in QuestionRoutes /\ rtRes.status = 200)
        => Len(rtRes.questions) >= 1

\* The step in which POST /generate-feedback stores an Answer row.
StoresAnswer ==
    /\ rtReq.route = FeedbackRoute
    /\ Len(answers') = Len(answers) + 1

SumOfScores(feedback) ==
    feedback.relevanceScore.v + feedback.clarityScore.v
    + feedback.depthScore.v + feedback.starMethodScore.v

LengthClass(words) ==
    IF words < 20 THEN "brief"
    ELSE IF words > 200 THEN "lengthy"
    ELSE "good"

RowScores(row) ==
    {row.relevanceScore, row.clarityScore, row.depthScore, row.overallScore}

\* C13: when the backend fails and the answer is stored, POST
\* /generate-feedback responds 200 with scores in [0,10] that come from the
\* length of the answer: in the low band (at most 4) for a brief answer and
\* for a brief answer only.
C13_HeuristicFallback ==
    [][(StoresAnswer /\ fbReturn.how = "catch" /\ rtRes.status = 0) =>
          /\ rtRes'.status = 200
          /\ \A x \in RowScores(rtRes'.feedback) :
                x.d # 0 /\ RatLeq(RatInt(0), x) /\ RatLeq(x, RatInt(10))
          /\ (LengthClass(rtReq.words) = "brief")
                <=> (\A x \in RowScores(rtRes'.feedback) : RatLeq(x, RatInt(4)))]_vars

\* The step in which toggleFavorite call i writes the row it read, the row
\* being as the call read it.
ToggleStep(i) ==
    /\ bmCalls[i].op = "toggleFavorite"
    /\ bmCalls[i].pc = "updating"
    /\ savedQuestionSets[bmCalls[i].setId] = bmCalls[i].set
    /\ bmCalls' = Without(bmCalls, i)

C15_NonOwnerFails ==
    [][/\ (/\ bmRes' # bmRes
           /\ bmRes'.route \in BookmarkOps
           /\ InitialSets[bmRes'.id].exists
           /\ bmRes'.userId # InitialSets[bmRes'.id].userId)
          => (bmRes'.status # 200 /\ savedQuestionSets' = savedQuestionSets)
       /\ (savedQuestionSets' # savedQuestionSets)
          => (bmRes'.userId = InitialSets[bmRes'.id].userId)]_vars

\* User 2 asked to remove the set of user 1.
C15_Witness ==
    /\ bmRes.route = "removeQuestionSet"
    /\ bmRes.id = 1
    /\ bmRes.userId = 2
    /\ bmRes.status = 500
    /\ savedQuestionSets = InitialSets

\* C16: every Answer row stored has exactly one updateUserProgress call, in
\* flight or settled, a saveAnswer whose insert rejected has none, the row
\* of the user counts the calls that returned, and the progress row is only
\* written by a call whose answer is already stored.
C16_UpdateOncePerAnswer ==
    /\ [](/\ Len(answers) = Len(calls) + settled.returned + settled.rejected
          /\ userProgress.totalQuestionsAnswered = settled.returned)
    /\ [][userProgress' # userProgress =>
             /\ answers' = answers
             /\ Len(answers) >= 1
             /\ \E i \in 1..Len(calls) : calls[i].pc = "selected"]_vars

\* One insert rejected and one answer stored and counted.
C16_Witness ==
    /\ calls = <<>>
    /\ settled.notInserted = 1
    /\ settled.returned = 1
    /\ Len(answers) = 1
    /\ userProgress.totalQuestionsAnswered = 1

\* (relevance + clarity + depth) / 3 of a stored answer
SampleOfRow(row) ==
    RatDivInt(RatAdd(RatAdd(row.relevanceScore, row.clarityScore), row.depthScore), 3)

\* Two calls have returned for a user who had one answer, both answers are
\* stored, and the row counts two answers.
TwoReturnedOneCounted ==
    /\ calls = <<>>
    /\ Len(answers) = 3
    /\ settled.returned = 2
    /\ settled.rejected = 0
    /\ userProgress.totalQuestionsAnswered = 2

\* C17: when two calls have returned for a user with one earlier answer and
\* the row counts only one more, its averageScore is the mean of the earlier
\* average and the sample of one of the two answers, the other being lost.
C17_LastWriterWins ==
    TwoReturnedOneCounted =>
        \E k \in {2, 3} :
            userProgress.averageScore =
                RatDivInt(RatAdd(SampleOfRow(answers[1]), SampleOfRow(answers[k])), 2)

\* The interleaving: two answers with different scores, one of them lost.
C17_Witness ==
    /\ TwoReturnedOneCounted
    /\ answers[2] # answers[3]

\* A generate-questions handler responds, no timeout response having gone
\* out before, and no interview row is created.
RespondsUnsaved ==
    /\ rtPc = "generating"
    /\ rtPc' = "done"
    /\ rtRes.status = 0
    /\ interviews' = interviews

C19_NotFoundIs404 ==
    (bmRes.route # "none" /\ ~bmRes.found) => bmRes.status = 404

\* C20: when the timer of the request fires while the upstream call of
\* generateFeedback is still awaited, the response sent is not a timeout
\* error.
C20_TimeoutTakesFallback ==
    [][(fbPc = "awaiting" /\ rtRes.status = 0 /\ rtRes' # rtRes) =>
          rtRes'.status # 408]_vars

\* C21: a feedback the memoized generateFeedback returns from the cache was
\* produced for exactly the question and the answer of the call.
C21_HitIsFresh ==
    (mfPc = "returned" /\ mfReturn.from = "cache") =>
        /\ mfReturn.text.question = mfReq.question
        /\ mfReturn.text.answer = mfReq.answer

\* The entry of the last set of the key is still to be returned at time t:
\* the key was not deleted and the cache not cleared since, and t is not
\* past the time of the set plus its ttl.
StillValid(last, t) == last.set /\ last.live /\ ~(t > last.at + last.ttl)

\* C30: get(key) returns the data of the most recent set(key) exactly when
\* the key was not deleted or the cache cleared since and the time is not
\* past its expiresAt; otherwise it returns null and leaves no entry for the
\* key.
C30_GetReturnsLastSet ==
    [][csGot'.n # csGot.n =>
          LET key == csGot'.key
          IN  IF StillValid(csLast[key], cacheNow)
              THEN csGot'.hit /\ csGot'.data = csLast[key].data
              ELSE ~csGot'.hit /\ key \notin DOMAIN cache']_vars

\* A get has found an entry that was set and has expired since, and
\* returned null.
C30_Witness ==
    /\ csGot.key \in CacheKeys
    /\ ~csGot.hit
    /\ csLast[csGot.key].set
    /\ csLast[csGot.key].live
    /\ cacheNow > csLast[csGot.key].at + csLast[csGot.key].ttl
    /\ csGot.key \notin DOMAIN cache

\* C22: the user has at most one row in user_progress, and exactly one as
\* soon as one of their saveAnswer calls has returned.
C22_OneRowPerUser ==
    /\ progressRows <= 1
    /\ settled.returned >= 1 => progressRows = 1
    /\ userProgress.exists <=> progressRows = 1

\* Two calls read that the user has no row; one inserted it and the other
\* was refused by the unique constraint.
C22_Witness ==
    /\ calls = <<>>
    /\ settled.returned = 1
    /\ settled.rejected = 1
    /\ progressRows = 1

RECURSIVE SumOfSamples(_, _)
\* The sum of the sample means of the first n answers.
SumOfSamples(rows, n) ==
    IF n = 0 THEN RatInt(0)
    ELSE RatAdd(SumOfSamples(rows, n - 1), SampleOfRow(rows[n]))

\* C23: for calls that do not overlap, starting without a row,
\* averageScore * totalQuestionsAnswered is the sum of the sample means of
\* the calls that returned, and totalQuestionsAnswered is their number.
C23_IncrementalIsBatchMean ==
    userProgress.exists =>
        /\ userProgress.totalQuestionsAnswered = settled.returned
        /\ RatMul(userProgress.averageScore, RatInt(userProgress.totalQuestionsAnswered))
               = SumOfSamples(answers, settled.returned)

\* Three calls with samples 7, 10 and 10 have returned.
C23_Witness ==
    /\ calls = <<>>
    /\ settled.returned = 3
    /\ userProgress.averageScore = RatInt(9)

\* saveAnswer rejects in updateUserProgress.
ProgressFailsAfterInsert == settled'.rejected = settled.rejected + 1

\* C24: when updateUserProgress fails after the answer was inserted, the
\* answer is stored and stays stored, the row of the user is unchanged and
\* POST /generate-feedback answers 500, never success.
C24_AnswerKeptOnProgressFailure ==
    /\ [][ProgressFailsAfterInsert =>
              /\ answers' = Append(answers, AnswerRow(fbReturn.value))
              /\ userProgress' = userProgress
              /\ rtRes'.status # 200
              /\ rtRes.status = 0 => rtRes'.status = 500]_vars
    /\ [][Len(answers') >= Len(answers)
              /\ SubSeq(answers', 1, Len(answers)) = answers]_vars

\* The handler has answered 500 and the answer is stored without a row of
\* the user.
C24_Witness ==
    /\ rtPc = "done"
    /\ rtRes.status = 500
    /\ settled.rejected = 1
    /\ Len(answers) = 1
    /\ ~userProgress.exists

\* Call i, which read that the user has no row, settles after another call
\* has inserted the row.
SecondInsertSettles(i) ==
    /\ calls[i].pc = "selected"
    /\ ~calls[i].current.exists
    /\ userProgress.exists
    /\ calls' = Without(calls, i)

\* C25: when two calls have both read that the user has no row, the second
\* one to write also completes, and the row then counts two answers.
C25_BothFirstCallsCount ==
    [][\A i \in 1..Len(calls) :
          SecondInsertSettles(i) =>
              /\ settled'.returned = settled.returned + 1
              /\ userProgress'.totalQuestionsAnswered = 2]_vars

\* C26: with sub-scores in [0,10] the averageScore of the row lies in
\* [0,10], whatever the interleaving of the calls.
C26_AverageInRange ==
    userProgress.exists =>
        /\ RatLeq(RatInt(0), userProgress.averageScore)
        /\ RatLeq(userProgress.averageScore, RatInt(10))

\* A stale write: of two overlapping calls with samples 10 the row keeps
\* one, next to the earlier sample 7.
C26_Witness ==
    /\ TwoReturnedOneCounted
    /\ userProgress.averageScore = Rat(17, 2)

\* C27: POST /api/generate-questions answers a body whose numberOfQuestions
\* is n with at most n questions.
C27_AtMostRequested ==
    (rtPc = "done" /\ rtReq.route = "api.generate-questions" /\ rtRes.status = 200)
        => Len(rtRes.questions) <= rtReq.numberOfQuestions

IncrementStep(i) ==
    /\ bmCalls[i].op = "incrementPracticeCount"
    /\ bmCalls[i].pc = "updating"
    /\ savedQuestionSets[bmCalls[i].setId].exists
    /\ bmCalls' = Without(bmCalls, i)

\* C29: every incrementPracticeCount that succeeds leaves practiceCount one
\* higher than it was, so that n of them raise it by n, whatever the
\* interleaving.
C29_EveryIncrementCounts ==
    [][\A i \in 1..Len(bmCalls) :
          IncrementStep(i) =>
              savedQuestionSets'[bmCalls[i].setId].practiceCount
                  = savedQuestionSets[bmCalls[i].setId].practiceCount + 1]_vars

====
